---- MODULE Spec2Model ----
(***************************************************************************)
(* The callback fan-out (ControlFlow) and the optional capture buffer      *)
(* (BaseDataFetcher) of flash/core/data/callback.py.                       *)
(*                                                                         *)
(* Objects of the model:                                                   *)
(*   "fetcher"  one BaseDataFetcher: enabled, batches, _preprocess         *)
(*   "A", "B"   two user FlashCallback subclasses that record every hook   *)
(*              invocation they receive in `calls`, and whose hook raises  *)
(*              when the caller's input says so                            *)
(*   "inner"    a ControlFlow registered inside another one; its list is   *)
(*              inner_callbacks                                            *)
(*   the outer ControlFlow, whose list is _callbacks                       *)
(*   the preprocess object "p", whose callback list is p_callbacks         *)
(***************************************************************************)
EXTENDS Integers, Sequences, FiniteSets, TLC

VARIABLES
    enabled,          \* BaseDataFetcher.enabled
    batches,          \* BaseDataFetcher.batches: stage prefix -> hook name -> payloads
    _preprocess,      \* BaseDataFetcher._preprocess
    scopes,           \* the number of enable() scopes that are open
    last,             \* the operation the caller performed last
    _callbacks,       \* ControlFlow._callbacks of the outer ControlFlow
    inner_callbacks,  \* ControlFlow._callbacks of the ControlFlow "inner"
    p_callbacks,      \* the callbacks registered in the preprocess object p
    calls,            \* what the user callbacks recorded during the last call
    exc               \* the exception that left the last call, or None

vars == <<enabled, batches, _preprocess, scopes, last,
          _callbacks, inner_callbacks, p_callbacks, calls, exc>>

lists == <<_callbacks, inner_callbacks, p_callbacks>>

(***************************************************************************)
(* Bounds of the model.                                                    *)
(***************************************************************************)
MaxEntries == 2
MaxDepth == 2
MaxLen == 3

None == "None"
Payloads == {5, 6}

(***************************************************************************)
(* The running stages and the stage-prefix table.                          *)
(***************************************************************************)
RunningStage == {"TRAINING", "VALIDATING", "TESTING", "PREDICTING"}

_STAGES_PREFIX ==
    [s \in RunningStage |->
        CASE s = "TRAINING" -> "train"
          [] s = "VALIDATING" -> "val"
          [] s = "TESTING" -> "test"
          [] s = "PREDICTING" -> "predict"]

Prefixes == {_STAGES_PREFIX[s] : s \in RunningStage}

(***************************************************************************)
(* The 8 hooks of FlashCallback, by method name.                           *)
(***************************************************************************)
Methods ==
    {"on_load_sample", "on_pre_tensor_transform", "on_to_tensor_transform",
     "on_post_tensor_transform", "on_per_batch_transform", "on_collate",
     "on_per_sample_transform_on_device", "on_per_batch_transform_on_device"}

(* a slip in one wrapper: on_per_batch_transform_on_device stores under the name of
   on_per_batch_transform *)
FetcherFnNameSlip(m) ==
    CASE m = "on_load_sample" -> "load_sample"
      [] m = "on_pre_tensor_transform" -> "pre_tensor_transform"
      [] m = "on_to_tensor_transform" -> "to_tensor_transform"
      [] m = "on_post_tensor_transform" -> "post_tensor_transform"
      [] m = "on_per_batch_transform" -> "per_batch_transform"
      [] m = "on_collate" -> "collate"
      [] m = "on_per_sample_transform_on_device" -> "per_sample_transform_on_device"
      [] m = "on_per_batch_transform_on_device" -> "per_batch_transform"

(* BaseDataFetcher.on_X: the fn_name each hook hands to _store. *)
FetcherFnName(m) ==
    CASE m = "on_load_sample" -> "load_sample"
      [] m = "on_pre_tensor_transform" -> "pre_tensor_transform"
      [] m = "on_to_tensor_transform" -> "to_tensor_transform"
      [] m = "on_post_tensor_transform" -> "post_tensor_transform"
      [] m = "on_per_batch_transform" -> "per_batch_transform"
      [] m = "on_collate" -> "collate"
      [] m = "on_per_sample_transform_on_device" -> "per_sample_transform_on_device"
      [] m = "on_per_batch_transform_on_device" -> "per_batch_transform_on_device"

FnNames == {FetcherFnName(m) : m \in Methods}

(* a slip in one wrapper: on_to_tensor_transform dispatches on_pre_tensor_transform *)
ControlFlowMethodNameSlip(m) ==
    CASE m = "on_load_sample" -> "on_load_sample"
      [] m = "on_pre_tensor_transform" -> "on_pre_tensor_transform"
      [] m = "on_to_tensor_transform" -> "on_pre_tensor_transform"
      [] m = "on_post_tensor_transform" -> "on_post_tensor_transform"
      [] m = "on_per_batch_transform" -> "on_per_batch_transform"
      [] m = "on_collate" -> "on_collate"
      [] m = "on_per_sample_transform_on_device" -> "on_per_sample_transform_on_device"
      [] m = "on_per_batch_transform_on_device" -> "on_per_batch_transform_on_device"

(* ControlFlow.on_X: the method_name each hook hands to run_for_all_callbacks. *)
ControlFlowMethodName(m) ==
    CASE m = "on_load_sample" -> "on_load_sample"
      [] m = "on_pre_tensor_transform" -> "on_pre_tensor_transform"
      [] m = "on_to_tensor_transform" -> "on_to_tensor_transform"
      [] m = "on_post_tensor_transform" -> "on_post_tensor_transform"
      [] m = "on_per_batch_transform" -> "on_per_batch_transform"
      [] m = "on_collate" -> "on_collate"
      [] m = "on_per_sample_transform_on_device" -> "on_per_sample_transform_on_device"
      [] m = "on_per_batch_transform_on_device" -> "on_per_batch_transform_on_device"

(***************************************************************************)
(* BaseDataFetcher.                                                        *)
(***************************************************************************)
EmptyStore == [k \in {} |-> <<>>]

(* a reset that forgets one stage *)
reset_partial == [k \in Prefixes \ {"predict"} |-> EmptyStore]

(* reset(): {k: {} for k in _STAGES_PREFIX.values()} *)
reset == [k \in Prefixes |-> EmptyStore]

(* dict.setdefault(key, default) on one per-stage store *)
setdefault(store, key, default) ==
    IF key \in DOMAIN store THEN store ELSE store @@ (key :> default)

(* what a failed dict lookup d[key] raises *)
KeyError == "KeyError"

(* what a call leaves behind: the new value of batches and the exception it raised *)
Returned(b) == [batches |-> b, exc |-> None]
Raised(b, e) == [batches |-> b, exc |-> e]

(* _store without its guard on enabled *)
_store_unguarded(en, b, data, fn_name, running_stage) ==
    LET k == _STAGES_PREFIX[running_stage]
        store == setdefault(b[k], fn_name, <<>>)
    IN  Returned([b EXCEPT ![k] = [store EXCEPT ![fn_name] = Append(@, data)]])

(* _store without store.setdefault(fn_name, []) *)
_store_without_setdefault(en, b, data, fn_name, running_stage) ==
    IF ~en THEN Returned(b)
    ELSE LET k == _STAGES_PREFIX[running_stage]
         IN  IF fn_name \notin DOMAIN b[k] THEN Raised(b, KeyError)
             ELSE Returned([b EXCEPT ![k][fn_name] = Append(@, data)])

(* _store(data, fn_name, running_stage): the two lookups of                *)
(* self.batches[_STAGES_PREFIX[running_stage]] raise KeyError on a missing *)
(* key; setdefault and append take any fn_name and any data                *)
_store(en, b, data, fn_name, running_stage) ==
    IF ~en THEN Returned(b)
    ELSE IF running_stage \notin DOMAIN _STAGES_PREFIX THEN Raised(b, KeyError)
    ELSE LET k == _STAGES_PREFIX[running_stage]
         IN  IF k \notin DOMAIN b THEN Raised(b, KeyError)
             ELSE LET store == setdefault(b[k], fn_name, <<>>)
                  IN  Returned([b EXCEPT ![k] =
                                   [store EXCEPT ![fn_name] = Append(@, data)]])

(* getattr(fetcher, m)(data, running_stage) *)
FetcherHook(m, en, b, data, running_stage) ==
    _store(en, b, data, FetcherFnName(m), running_stage)

(* the number of payloads held in one per-stage store, and in batches *)
RECURSIVE StoreSize(_)
StoreSize(store) ==
    IF DOMAIN store = {} THEN 0
    ELSE LET n == CHOOSE n \in DOMAIN store : TRUE
         IN  Len(store[n]) + StoreSize([x \in DOMAIN store \ {n} |-> store[x]])

RECURSIVE SumOver(_, _)
SumOver(b, ks) ==
    IF ks = {} THEN 0
    ELSE LET k == CHOOSE k \in ks : TRUE
         IN  StoreSize(b[k]) + SumOver(b, ks \ {k})

Total(b) == SumOver(b, DOMAIN b)

(* enable(): the three places of the generator-based context manager.  The  *)
(* new value of enabled on entry (line 206), on resuming after the yield    *)
(* when the body completed (line 208), and when the body's exception is     *)
(* thrown into the generator at the yield (line 207: nothing catches it, so *)
(* line 208 is not reached).                                                *)
enable_enter(en) == TRUE

(* an exit that leaves the flag as it finds it *)
enable_exit_keeps(en) == en

enable_exit(en) == FALSE

enable_throw(en) == en

(***************************************************************************)
(* The preprocess object's registration API.                               *)
(***************************************************************************)
Range(seq) == {seq[i] : i \in 1..Len(seq)}

RECURSIVE add_callbacks(_, _)
add_callbacks(registered, new) ==
    IF new = <<>> THEN registered
    ELSE add_callbacks(IF Head(new) \in Range(registered) THEN registered
                       ELSE Append(registered, Head(new)),
                       Tail(new))

(* an attach that records p without registering the fetcher *)
attach_without_registration(registered) ==
    [p_callbacks |-> registered, _preprocess |-> "p"]

(* attach_to_preprocess(preprocess): p's callback list and the back-reference after it *)
attach_to_preprocess(registered) ==
    [p_callbacks |-> add_callbacks(registered, <<"fetcher">>), _preprocess |-> "p"]

(***************************************************************************)
(* ControlFlow.  A dispatch threads the state the callbacks can change:    *)
(* st = [enabled, batches, calls, exc], exc being the exception in flight. *)
(***************************************************************************)
UserCallbacks == {"A", "B"}
Leaves == UserCallbacks \cup {"fetcher"}
(* the exception the hook of user callback cb raises *)
HookError(cb) == IF cb = "A" THEN "HookError of A" ELSE "HookError of B"
BodyError == "BodyError"

RECURSIVE run_for_all_callbacks(_, _, _, _, _, _)
RECURSIVE ForLoop(_, _, _, _, _, _, _)
RECURSIVE Invoke(_, _, _, _, _, _)

(* getattr(cb, method_name)(data, running_stage); bad: the user callbacks whose hook raises *)
Invoke(cb, method_name, data, running_stage, bad, st) ==
    CASE cb = "fetcher" ->
           LET r == FetcherHook(method_name, st.enabled, st.batches, data, running_stage)
           IN  [st EXCEPT !.batches = r.batches, !.exc = r.exc]
      [] cb \in UserCallbacks ->
           [st EXCEPT !.calls = Append(@, <<cb, method_name, data, running_stage>>),
                      !.exc = IF cb \in bad THEN HookError(cb) ELSE None]
      [] cb = "inner" ->
           run_for_all_callbacks(inner_callbacks, data, running_stage,
                                 ControlFlowMethodName(method_name), bad, st)

(* a loop that swallows what a hook raises and goes on *)
RECURSIVE ForLoopSwallows(_, _, _, _, _, _, _)
ForLoopSwallows(cbs, i, data, running_stage, method_name, bad, st) ==
    IF i > Len(cbs) THEN st
    ELSE LET st1 == Invoke(cbs[i], method_name, data, running_stage, bad, st)
         IN  ForLoopSwallows(cbs, i + 1, data, running_stage, method_name, bad,
                             [st1 EXCEPT !.exc = None])

(* for cb in self._callbacks: ... from position i on; an exception leaves the loop *)
ForLoop(cbs, i, data, running_stage, method_name, bad, st) ==
    IF i > Len(cbs) THEN st
    ELSE LET st1 == Invoke(cbs[i], method_name, data, running_stage, bad, st)
         IN  IF st1.exc # None THEN st1
             ELSE ForLoop(cbs, i + 1, data, running_stage, method_name, bad, st1)

(* a dispatch that starts at the second callback *)
run_for_all_callbacks_skips_first(cbs, data, running_stage, method_name, bad, st) ==
    IF cbs # <<>>
    THEN ForLoop(cbs, 2, data, running_stage, method_name, bad, st)
    ELSE st

(* a dispatch that undoes what its callbacks did when one of them raises *)
run_for_all_callbacks_rolls_back(cbs, data, running_stage, method_name, bad, st) ==
    IF cbs # <<>>
    THEN LET r == ForLoop(cbs, 1, data, running_stage, method_name, bad, st)
         IN  IF r.exc # None THEN [st EXCEPT !.exc = r.exc] ELSE r
    ELSE st

(* run_for_all_callbacks(method_name, data, running_stage) over the list cbs *)
run_for_all_callbacks(cbs, data, running_stage, method_name, bad, st) ==
    IF cbs # <<>>
    THEN ForLoop(cbs, 1, data, running_stage, method_name, bad, st)
    ELSE st

(* ControlFlow(cbs).on_X(data, running_stage), X given by the method name m *)
ControlFlowHook(cbs, m, data, running_stage, bad, st) ==
    run_for_all_callbacks(cbs, data, running_stage, ControlFlowMethodName(m), bad, st)

(* the state a top-level call starts from: no exception in flight, nothing recorded *)
Entry == [enabled |-> enabled, batches |-> batches, calls |-> <<>>, exc |-> None]

(***************************************************************************)
(* Operations on the fetcher.  `last` is the operation performed last and  *)
(* the number of payloads batches held when it started; `exc` is the       *)
(* exception that left it, None when it returned.                          *)
(***************************************************************************)
Op(name) == [op |-> name, size |-> Total(batches)]

(* fetcher.on_X(x, s), called directly *)
OnHook(m, x, s) ==
    /\ enabled => Total(batches) < MaxEntries
    /\ LET r == FetcherHook(m, enabled, batches, x, s)
       IN  /\ batches' = r.batches
           /\ exc' = r.exc
    /\ last' = Op("hook")
    /\ UNCHANGED <<enabled, _preprocess, scopes, lists, calls>>

(* with fetcher.enable(): entry *)
EnableEnter ==
    /\ scopes < MaxDepth
    /\ enabled' = enable_enter(enabled)
    /\ scopes' = scopes + 1
    /\ last' = Op("enter")
    /\ exc' = None
    /\ UNCHANGED <<batches, _preprocess, lists, calls>>

(* the body of the innermost open scope completes *)
EnableExit ==
    /\ scopes > 0
    /\ enabled' = enable_exit(enabled)
    /\ scopes' = scopes - 1
    /\ last' = Op("exit")
    /\ exc' = None
    /\ UNCHANGED <<batches, _preprocess, lists, calls>>

(* the body of the innermost open scope raises, and the exception leaves the scope *)
EnableExitRaise ==
    /\ scopes > 0
    /\ enabled' = enable_throw(enabled)
    /\ scopes' = scopes - 1
    /\ last' = Op("exit_raise")
    /\ exc' = BodyError
    /\ UNCHANGED <<batches, _preprocess, lists, calls>>

Reset ==
    /\ batches' = reset
    /\ last' = Op("reset")
    /\ exc' = None
    /\ UNCHANGED <<enabled, _preprocess, scopes, lists, calls>>

AttachToPreprocess ==
    /\ p_callbacks' = attach_to_preprocess(p_callbacks).p_callbacks
    /\ _preprocess' = attach_to_preprocess(p_callbacks)._preprocess
    /\ last' = Op("attach")
    /\ exc' = None
    /\ UNCHANGED <<enabled, batches, scopes, _callbacks, inner_callbacks, calls>>

(* the pipeline of p invokes hook m on the ControlFlow over p's registered callbacks *)
PreprocessInvoke(m, x, s) ==
    \E bad \in SUBSET (UserCallbacks \cap Range(p_callbacks)) :
        LET r == ControlFlowHook(p_callbacks, m, x, s, bad, Entry)
        IN  /\ Total(r.batches) <= MaxEntries
            /\ enabled' = r.enabled
            /\ batches' = r.batches
            /\ calls' = r.calls
            /\ exc' = r.exc
            /\ last' = Op("preprocess")
            /\ UNCHANGED <<_preprocess, scopes, lists>>

(***************************************************************************)
(* The fetcher's life: constructed enabled or not, then any hook calls,    *)
(* enable() scopes (nested up to MaxDepth), resets, attachment to p and    *)
(* invocations by p.  A disabled fetcher is called with every hook at      *)
(* every stage; captures, and the invocations by p, are drawn from         *)
(* CaptureSites (every hook, and every stage) so that batches stays small. *)
(***************************************************************************)
CaptureSites ==
    {c \in Methods \X RunningStage : c[1] = "on_load_sample" \/ c[2] = "VALIDATING"}

Called(m, s) == enabled => <<m, s>> \in CaptureSites

Init ==
    /\ enabled \in BOOLEAN
    /\ _preprocess = None
    /\ batches = reset
    /\ scopes = 0
    /\ last = [op |-> "init", size |-> 0]
    /\ _callbacks = <<>>
    /\ inner_callbacks = <<>>
    /\ p_callbacks = <<>>
    /\ calls = <<>>
    /\ exc = None

Next ==
    \/ \E m \in Methods, x \in Payloads, s \in RunningStage :
          Called(m, s) /\ OnHook(m, x, s)
    \/ EnableEnter
    \/ EnableExit
    \/ EnableExitRaise
    \/ Reset
    \/ AttachToPreprocess
    \/ \E c \in CaptureSites, x \in Payloads : PreprocessInvoke(c[1], x, c[2])

Spec == Init /\ [][Next]_vars

(***************************************************************************)
(* The capture buffer alone: a fetcher constructed enabled or not, every   *)
(* hook at every stage, and reset.                                         *)
(***************************************************************************)
NextStore ==
    \/ \E m \in Methods, x \in Payloads, s \in RunningStage : OnHook(m, x, s)
    \/ Reset

SpecStore == Init /\ [][NextStore]_vars

(***************************************************************************)
(* The dispatcher: a ControlFlow constructed over any list of at most      *)
(* MaxLen callbacks (the fetcher, the user callbacks, the inner            *)
(* ControlFlow), then one call of run_for_all_callbacks or of one of its   *)
(* own hooks.  `last` also holds the call's arguments.                     *)
(***************************************************************************)
RECURSIVE ListsUpTo(_, _)
ListsUpTo(S, n) ==
    IF n = 0 THEN {<<>>}
    ELSE LET shorter == ListsUpTo(S, n - 1)
         IN  shorter \cup {Append(l, c) : l \in shorter, c \in S}

InnerLists == {<<>>, <<"A">>, <<"B", "fetcher">>, <<"fetcher", "A">>}

(* the leaf callbacks a dispatch over cbs reaches, in order *)
RECURSIVE Flatten(_)
Flatten(cbs) ==
    IF cbs = <<>> THEN <<>>
    ELSE (IF Head(cbs) = "inner" THEN inner_callbacks ELSE <<Head(cbs)>>)
         \o Flatten(Tail(cbs))

Call(name, m, x, s, bad) ==
    [op |-> name, size |-> Total(batches), m |-> m, x |-> x, s |-> s, bad |-> bad]

Store(r) ==
    /\ enabled' = r.enabled
    /\ batches' = r.batches
    /\ calls' = r.calls
    /\ exc' = r.exc

(* cf.run_for_all_callbacks(x, s, method_name=m) *)
CallRunForAllCallbacks(m, x, s, bad) ==
    /\ last.op = "init"
    /\ Store(run_for_all_callbacks(_callbacks, x, s, m, bad, Entry))
    /\ last' = Call("run_for_all_callbacks", m, x, s, bad)
    /\ UNCHANGED <<_preprocess, scopes, lists>>

(* cf.on_X(x, s), X given by the method name m *)
CallControlFlowHook(m, x, s, bad) ==
    /\ last.op = "init"
    /\ Store(ControlFlowHook(_callbacks, m, x, s, bad, Entry))
    /\ last' = Call("hook", m, x, s, bad)
    /\ UNCHANGED <<_preprocess, scopes, lists>>

InitFlow ==
    /\ enabled \in BOOLEAN
    /\ _preprocess = None
    /\ batches = reset
    /\ scopes = 0
    /\ last = [op |-> "init", size |-> 0]
    /\ _callbacks \in ListsUpTo(Leaves \cup {"inner"}, MaxLen)
    /\ inner_callbacks \in (IF "inner" \in Range(_callbacks) THEN InnerLists ELSE {<<>>})
    /\ p_callbacks = <<>>
    /\ calls = <<>>
    /\ exc = None

NextFlow ==
    \/ \E m \in Methods, x \in Payloads, s \in RunningStage,
          bad \in SUBSET (UserCallbacks \cap Range(Flatten(_callbacks))) :
          CallRunForAllCallbacks(m, x, s, bad)
    \/ \E m \in Methods, x \in Payloads, s \in RunningStage,
          bad \in SUBSET (UserCallbacks \cap Range(Flatten(_callbacks))) :
          CallControlFlowHook(m, x, s, bad)

SpecFlow == InitFlow /\ [][NextFlow]_vars

(***************************************************************************)
(* What the claims speak of.                                               *)
(***************************************************************************)
(* the name under which hook on_<name> is captured *)
HookName ==
    [m \in Methods |->
        CASE m = "on_load_sample" -> "load_sample"
          [] m = "on_pre_tensor_transform" -> "pre_tensor_transform"
          [] m = "on_to_tensor_transform" -> "to_tensor_transform"
          [] m = "on_post_tensor_transform" -> "post_tensor_transform"
          [] m = "on_per_batch_transform" -> "per_batch_transform"
          [] m = "on_collate" -> "collate"
          [] m = "on_per_sample_transform_on_device" -> "per_sample_transform_on_device"
          [] m = "on_per_batch_transform_on_device" -> "per_batch_transform_on_device"]

StagePrefixKeys == {"train", "val", "test", "predict"}

(* b is the all-empty structure: exactly the four stage-prefix keys, each an empty mapping *)
AllEmpty(b) ==
    /\ DOMAIN b = StagePrefixKeys
    /\ \A k \in StagePrefixKeys : DOMAIN b[k] = {}

(* the sequence captured in b under stage prefix k and hook name n, empty when not yet created *)
Captured(b, k, n) == IF n \in DOMAIN b[k] THEN b[k][n] ELSE <<>>

(* b2 is b1 with exactly the payload x appended to the end of [k][n], all else as it was *)
AppendedTo(b1, b2, k, n, x) ==
    /\ DOMAIN b2 = DOMAIN b1
    /\ DOMAIN b2[k] = DOMAIN b1[k] \cup {n}
    /\ b2[k][n] = Append(Captured(b1, k, n), x)
    /\ \A n2 \in DOMAIN b1[k] \ {n} : b2[k][n2] = b1[k][n2]
    /\ \A k2 \in DOMAIN b1 \ {k} : b2[k2] = b1[k2]

(* C3: while enabled is false, no hook call (direct, or made by p's pipeline) changes
   batches, whatever the hook, the stage and the payload, and whatever batches holds. *)
C3_DisabledHookStoresNothing ==
    [][(~enabled /\ last'.op \in {"hook", "preprocess"}) => batches' = batches]_vars

C3_Witness ==
    /\ last.op = "hook"
    /\ ~enabled
    /\ last.size > 0
    /\ Total(batches) = last.size

(* C4: while enabled, a call of hook on_<name> with (x, s) appends exactly x to the end of
   batches[prefix(s)][<name>], creating the list on first use, and leaves every other
   stage and every other hook name's sequence as it was. *)
C4_EnabledHookAppendsOne ==
    [][\A m \in Methods, x \in Payloads, s \in RunningStage :
          (enabled /\ OnHook(m, x, s)) =>
              \E k \in StagePrefixKeys :
                  /\ k = _STAGES_PREFIX[s]
                  /\ AppendedTo(batches, batches', k, HookName[m], x)]_vars

C4_Witness ==
    /\ last.op = "hook"
    /\ enabled
    /\ \E k \in DOMAIN batches : \E n \in DOMAIN batches[k] :
          batches[k][n] = <<6, 5>>

(* C5: entering the scope sets enabled, and no hook call, reset or attachment in the body
   changes it; a hook call made while a scope is open and enabled is still set appends its
   payload to the end of one sequence (so the calls of the block are captured in call
   order); when the body completes, the exit sets enabled to false, after which a hook
   call captures nothing. *)
C5_ScopedCapture ==
    [][/\ last'.op = "enter" => enabled'
       /\ last'.op \in {"hook", "reset", "attach", "preprocess"} => enabled' = enabled
       /\ last'.op = "exit" => ~enabled'
       /\ (last'.op = "hook" /\ scopes > 0 /\ enabled) =>
             \E k \in StagePrefixKeys, m \in Methods, x \in Payloads :
                 AppendedTo(batches, batches', k, HookName[m], x)
       /\ (last'.op = "hook" /\ last.op = "exit") => batches' = batches]_vars

C5_Witness ==
    /\ last.op = "exit"
    /\ scopes = 0
    /\ ~enabled
    /\ batches["val"] = [n \in {"load_sample"} |-> <<5, 6>>]

(* C6: whenever an enable() scope is left, by completion of its body or by an exception
   leaving it, enabled is false right after. *)
C6_DisabledAfterEveryExit ==
    last.op \in {"exit", "exit_raise"} => ~enabled

(* C7: a hook call made while a scope of the caller is still open is captured. *)
C7_CapturedWhileScopeOpen ==
    (last.op = "hook" /\ scopes > 0) => Total(batches) = last.size + 1

(* C8: reset() leaves batches the all-empty four-stage structure whatever it held, and
   changes neither enabled nor the back-reference; the first capture after a reset is
   the only payload held. *)
C8_ResetEmpties ==
    [][/\ last'.op = "reset" =>
             /\ AllEmpty(batches')
             /\ enabled' = enabled
             /\ _preprocess' = _preprocess
       /\ (last.op = "reset" /\ last'.op = "hook" /\ enabled) =>
             \E k \in StagePrefixKeys, m \in Methods, x \in Payloads :
                 /\ batches'[k] = [n \in {HookName[m]} |-> <<x>>]
                 /\ \A k2 \in StagePrefixKeys \ {k} : DOMAIN batches'[k2] = {}]_vars

C8_Witness ==
    /\ last.op = "reset"
    /\ last.size = 2
    /\ enabled
    /\ _preprocess = "p"
    /\ AllEmpty(batches)

(* C9: attach_to_preprocess(p) records p, registers the fetcher once in p's callbacks and
   leaves enabled and batches alone; and in every state reached after it, an invocation of
   any hook by p changes enabled and batches exactly as the same hook of a ControlFlow
   constructed over [fetcher] does, so the two evolve alike over any sequence. *)
C9_AttachIsManualRegistration ==
    /\ [][last'.op = "attach" =>
             /\ _preprocess' = "p"
             /\ enabled' = enabled
             /\ batches' = batches
             /\ "fetcher" \notin Range(p_callbacks) =>
                    p_callbacks' = Append(p_callbacks, "fetcher")
             /\ Cardinality({i \in 1..Len(p_callbacks') : p_callbacks'[i] = "fetcher"}) = 1]_vars
    /\ [](_preprocess = "p" =>
             \A m \in Methods, x \in Payloads, s \in RunningStage :
                 LET viaP == ControlFlowHook(p_callbacks, m, x, s, {}, Entry)
                     manual == ControlFlowHook(<<"fetcher">>, m, x, s, {}, Entry)
                 IN  /\ viaP.enabled = manual.enabled
                     /\ viaP.batches = manual.batches)

C9_Witness ==
    /\ last.op = "preprocess"
    /\ _preprocess = "p"
    /\ enabled
    /\ last.size = 1
    /\ Total(batches) = 2

(* the invocations the user callbacks of flat record for one hook call, in order *)
UserCalls(flat, m, x, s) ==
    LET IsUser(c) == c \in UserCallbacks
        U == SelectSeq(flat, IsUser)
    IN  [i \in 1..Len(U) |-> <<U[i], m, x, s>>]

CountOf(flat, c) == Cardinality({i \in 1..Len(flat) : flat[i] = c})

(* batches holds n copies of x under (prefix(s), name of m) and nothing else, or nothing
   at all when the fetcher is disabled or n = 0 *)
HoldsCopies(b, n, m, x, s) ==
    IF enabled /\ n > 0
    THEN /\ DOMAIN b = StagePrefixKeys
         /\ b[_STAGES_PREFIX[s]] = [h \in {HookName[m]} |-> [i \in 1..n |-> x]]
         /\ \A k \in StagePrefixKeys \ {_STAGES_PREFIX[s]} : DOMAIN b[k] = {}
    ELSE AllEmpty(b)

(* C1: run_for_all_callbacks(x, s, method_name=h) in which no hook raises invokes h once on
   each registered callback, in list order, each with (x, s), and nothing else; no
   exception leaves it; over an empty list nothing is invoked. *)
C1_EachCallbackOnceInOrder ==
    (last.op = "run_for_all_callbacks" /\ last.bad = {}) =>
        LET flat == Flatten(_callbacks)
        IN  /\ exc = None
            /\ calls = UserCalls(flat, last.m, last.x, last.s)
            /\ HoldsCopies(batches, CountOf(flat, "fetcher"), last.m, last.x, last.s)

C1_Witness ==
    /\ last.op = "run_for_all_callbacks"
    /\ last.bad = {}
    /\ last.m = "on_collate"
    /\ _callbacks = <<"A", "fetcher", "B">>
    /\ enabled
    /\ Len(calls) = 2

(* the exception a raising hook of each user callback raises *)
RaisedBy == [cb \in {"A", "B"} |-> IF cb = "A" THEN "HookError of A" ELSE "HookError of B"]

(* C2: when the hook of callback ck raises, no hook of a later callback is invoked for
   that call, and the exception ck raised is the one that leaves the dispatcher. *)
C2_RaiseStopsDispatch ==
    (last.op \in {"run_for_all_callbacks", "hook"} /\ last.bad # {}) =>
        LET flat == Flatten(_callbacks)
            k == CHOOSE i \in 1..Len(flat) :
                    /\ flat[i] \in last.bad
                    /\ \A j \in 1..(i - 1) : flat[j] \notin last.bad
            upto == SubSeq(flat, 1, k)
        IN  /\ exc = RaisedBy[flat[k]]
            /\ calls = UserCalls(upto, last.m, last.x, last.s)
            /\ Total(batches) <= CountOf(upto, "fetcher")

C2_Witness ==
    /\ last.op = "run_for_all_callbacks"
    /\ _callbacks = <<"A", "B", "A">>
    /\ last.bad = {"B"}
    /\ Len(calls) = 2
    /\ exc = RaisedBy["B"]

(* C10: the ControlFlow's own hook on_X(x, s) does what run_for_all_callbacks with
   method_name on_X does over the flattened list of leaf callbacks: same invocations in
   the same order, same captures, same exception. *)
C10_HookIsDispatchOfSameName ==
    last.op = "hook" =>
        LET r == run_for_all_callbacks(Flatten(_callbacks), last.x, last.s, last.m, last.bad,
                     [enabled |-> enabled, batches |-> reset, calls |-> <<>>, exc |-> None])
        IN  /\ calls = r.calls
            /\ exc = r.exc
            /\ batches = r.batches

C10_Witness ==
    /\ last.op = "hook"
    /\ last.m = "on_to_tensor_transform"
    /\ last.bad = {}
    /\ _callbacks = <<"A", "inner", "B">>
    /\ inner_callbacks = <<"B", "fetcher">>
    /\ enabled
    /\ Len(calls) = 3
    /\ Total(batches) = 1

(* C11: no hook call of the fetcher raises.  Every direct hook call that was made
   returned without an exception, and from every reachable fetcher state (enabled or
   not, before or after reset, with or without earlier captures under the same name)
   each of the 8 hooks, for each of the four running stages and each payload, returns
   without an exception. *)
C11_HooksNeverRaise ==
    /\ last.op = "hook" => exc = None
    /\ \A m \in Methods, x \in Payloads, s \in RunningStage :
           FetcherHook(m, enabled, batches, x, s).exc = None

C11_Witness ==
    /\ last.op = "hook"
    /\ enabled
    /\ exc = None
    /\ \E k \in DOMAIN batches : \E n \in DOMAIN batches[k] : Len(batches[k][n]) = 2

(* C12: a failed dispatch undoes nothing.  When the hook of a callback raises during a
   dispatch, what the callbacks before it did for that call is still there: the user
   callbacks up to the raising one were invoked and stay invoked, and batches holds the
   payload exactly once for each registration of the enabled fetcher before the raising
   callback and not at all for a registration after it. *)
C12_NoRollback ==
    (last.op \in {"run_for_all_callbacks", "hook"} /\ exc # None) =>
        LET flat == Flatten(_callbacks)
            k == CHOOSE i \in 1..Len(flat) :
                    /\ flat[i] \in last.bad
                    /\ \A j \in 1..(i - 1) : flat[j] \notin last.bad
            before == SubSeq(flat, 1, k - 1)
        IN  /\ last.bad # {}
            /\ SubSeq(calls, 1, Len(calls) - 1) = UserCalls(before, last.m, last.x, last.s)
            /\ HoldsCopies(batches, CountOf(before, "fetcher"), last.m, last.x, last.s)

C12_Witness ==
    /\ last.op = "run_for_all_callbacks"
    /\ _callbacks = <<"fetcher", "A", "fetcher">>
    /\ last.bad = {"A"}
    /\ exc = RaisedBy["A"]
    /\ enabled
    /\ Total(batches) = 1

====
